---- MODULE Spec2Model ----
(***************************************************************************)
(* Feature extraction of the phishing detection system:                    *)
(* src/ml_models/feature_extractor.py, class FeatureExtractor.             *)
(*                                                                         *)
(* Conventions of the model.                                               *)
(*  - A Python str is a sequence of code points (ord of each character).   *)
(*  - A Python dict is a function; a missing key is a key outside DOMAIN.   *)
(*  - A float quotient a / b is the pair <<a, b>> in lowest terms; the     *)
(*    literal 0 of the code's guards is <<0, 1>>; a division by zero is    *)
(*    ZeroDivisionError.                                                   *)
(*  - Entropy is fixed point: EntropyScale units per bit.                  *)
(*  - A call that raises returns [raised |-> <exception name>].            *)
(***************************************************************************)
EXTENDS Integers, Sequences, FiniteSets, TLC

VARIABLES
    tfidf_vectorizer,   \* self.tfidf_vectorizer: the fitted state of the shared TfidfVectorizer
    email_data,         \* argument of the latest extract_all_features call
    result,             \* what that call returned, or the exception it raised
    probe,              \* an earlier call kept for comparison: [email, result]
    pc,                 \* per worker: position inside extract_all_features
    submission,         \* per worker: the email being processed
    partial,            \* per worker: worker-local values (features so far, counted terms)
    outcome,            \* per worker: the finished call's result
    s, t,               \* _calculate_entropy: a string and a rearrangement of it
    entropy_s, entropy_t,
    text, text_features,    \* _extract_text_features: argument and return value
    urls, url_features,     \* _extract_url_features: argument and return value
    features, ml_input      \* prepare_ml_input: argument and return value

extractorVars == <<tfidf_vectorizer, email_data, result, probe>>
workerVars == <<pc, submission, partial, outcome>>
entropyVars == <<s, t, entropy_s, entropy_t>>
textVars == <<text, text_features>>
urlVars == <<urls, url_features>>
mlVars == <<features, ml_input>>
vars == <<tfidf_vectorizer, email_data, result, probe, pc, submission, partial, outcome,
          s, t, entropy_s, entropy_t, text, text_features, urls, url_features,
          features, ml_input>>

----------------------------------------------------------------------------
(* Python built-ins on str, list and dict *)

Get(d, k, default) == IF k \in DOMAIN d THEN d[k] ELSE default

\* dict.update: the keys of g overwrite those of f
Update(f, g) == [k \in DOMAIN f \cup DOMAIN g |-> IF k \in DOMAIN g THEN g[k] ELSE f[k]]

IsUpper(c) == c \in 65..90 \/ (c \in 192..222 /\ c # 215)

LowerChar(c) == IF IsUpper(c) THEN c + 32 ELSE c

Lower(str) == [i \in 1..Len(str) |-> LowerChar(str[i])]

IsSpace(c) == c \in {9, 10, 11, 12, 13, 32}

IsDigit(c) == c \in 48..57

\* \w of the re module (str patterns): letters, digits and the underscore
IsWordChar(c) ==
    \/ c \in 48..57 \/ c \in 65..90 \/ c \in 97..122 \/ c = 95
    \/ (c >= 192 /\ c # 215 /\ c # 247)

MatchAt(str, i, sub) ==
    /\ i + Len(sub) - 1 <= Len(str)
    /\ \A j \in 1..Len(sub) : str[i + j - 1] = sub[j]

\* sub in str
Contains(str, sub) == \E i \in 1..(Len(str) - Len(sub) + 1) : MatchAt(str, i, sub)

StartsWith(str, sub) == MatchAt(str, 1, sub)

RECURSIVE CountFrom(_, _, _)
CountFrom(str, sub, i) ==
    IF i + Len(sub) - 1 > Len(str) THEN 0
    ELSE IF MatchAt(str, i, sub) THEN 1 + CountFrom(str, sub, i + Len(sub))
    ELSE CountFrom(str, sub, i + 1)

\* str.count(sub): non-overlapping occurrences, left to right (sub non-empty)
Count(str, sub) == CountFrom(str, sub, 1)

\* str.count(chr(c)) for a single character
CountChar(str, c) == Cardinality({j \in 1..Len(str) : str[j] = c})

RECURSIVE SumSeq(_)
SumSeq(q) == IF q = <<>> THEN 0 ELSE Head(q) + SumSeq(Tail(q))

\* sum(1 for c in str if P(c))
CountIf(str, P(_)) == Cardinality({i \in 1..Len(str) : P(str[i])})

RECURSIVE Gcd(_, _)
Gcd(a, b) == IF b = 0 THEN a ELSE Gcd(b, a % b)

ZeroDivisionError == <<1, 0>>

Zero == <<0, 1>>

\* a / b on non-negative numbers
Div(a, b) ==
    IF b = 0 THEN ZeroDivisionError
    ELSE LET g == Gcd(a, b) IN IF g = 0 THEN Zero ELSE <<a \div g, b \div g>>

----------------------------------------------------------------------------
(* _calculate_entropy, lines 273-286 *)

EntropyScale == 4 * 1024

MantissaOne == 16 * 1024

RECURSIVE Log2Int(_, _)
\* floor(log2(num / den)) for num >= den >= 1
Log2Int(num, den) == IF num >= 2 * den THEN 1 + Log2Int(num, 2 * den) ELSE 0

RECURSIVE Log2Frac(_, _, _)
\* the next `bits` binary digits of log2(y / MantissaOne), 1 <= y / MantissaOne < 2,
\* by repeated squaring
Log2Frac(y, bits, acc) ==
    IF bits = 0 THEN acc
    ELSE LET y2 == (y * y) \div MantissaOne
         IN IF y2 >= 2 * MantissaOne
            THEN Log2Frac(y2 \div 2, bits - 1, 2 * acc + 1)
            ELSE Log2Frac(y2, bits - 1, 2 * acc)

\* np.log2(den / num) negated: log2(num / den) >= 0 in EntropyScale units, num >= den >= 1
NegLog2(num, den) ==
    LET k == Log2Int(num, den)
        y == (num * MantissaOne) \div (den * 2^k)
    IN k * EntropyScale + Log2Frac(y, 12, 0)

\* one pass of the loop body for chr(i): freq = s.count(char); if freq > 0:
\* freq = float(freq) / len(s); entropy -= freq * (freq and np.log2(freq) or 0)
EntropyTerm(str, i) ==
    LET freq == CountChar(str, i)
    IN IF freq > 0
       THEN LET log == NegLog2(Len(str), freq)
                term == IF log # 0 THEN log ELSE 0
            IN (freq * term) \div Len(str)
       ELSE 0

RECURSIVE EntropyLoop(_, _, _)
\* for i in range(lo, hi + 1): the terms are added up (halving keeps the
\* evaluation shallow; integer addition does not depend on the order)
EntropyLoop(str, lo, hi) ==
    IF lo = hi THEN EntropyTerm(str, lo)
    ELSE LET mid == (lo + hi) \div 2
         IN EntropyLoop(str, lo, mid) + EntropyLoop(str, mid + 1, hi)

RECURSIVE SkipFirstLoop(_, _, _)
SkipFirstLoop(str, lo, hi) ==
    IF lo = hi
    THEN LET freq == CountChar(Tail(str), lo)
         IN IF freq > 0 THEN (freq * NegLog2(Len(str), freq)) \div Len(str) ELSE 0
    ELSE LET mid == (lo + hi) \div 2
         IN SkipFirstLoop(str, lo, mid) + SkipFirstLoop(str, mid + 1, hi)

\* a plausible slip: the frequency of a character is counted over s[1:]
EntropySkipFirst(str) ==
    IF str = <<>> THEN 0 ELSE SkipFirstLoop(str, 0, 255)

_calculate_entropy(str) ==
    IF str = <<>> THEN 0 ELSE EntropyLoop(str, 0, 255)

----------------------------------------------------------------------------
(* _extract_text_features, lines 75-107 *)

\* the characters word_tokenize splits off as tokens of their own
IsPunctuation(c) == c \in {46, 44, 33, 63, 59, 58}     \* . , ! ? ; :

IsTerminator(c) == c \in {46, 33, 63}                  \* . ! ?

RECURSIVE WordScan(_, _, _, _)
WordScan(str, i, cur, out) ==
    LET flushed == IF cur = <<>> THEN out ELSE Append(out, cur)
    IN IF i > Len(str) THEN flushed
       ELSE IF IsSpace(str[i]) THEN WordScan(str, i + 1, <<>>, flushed)
       ELSE IF IsPunctuation(str[i]) THEN WordScan(str, i + 1, <<>>, Append(flushed, <<str[i]>>))
       ELSE WordScan(str, i + 1, Append(cur, str[i]), out)

\* nltk.word_tokenize: the runs of non-blank characters, punctuation marks
\* split off as tokens of their own
word_tokenize(str) == WordScan(str, 1, <<>>, <<>>)

RECURSIVE SentScan(_, _, _, _)
\* st: 0 nothing yet, 1 inside a sentence, 2 just after a terminator,
\*     3 after a terminator and white space
SentScan(str, i, st, n) ==
    IF i > Len(str) THEN (IF st = 0 THEN n ELSE n + 1)
    ELSE LET c == str[i]
         IN IF IsSpace(c) THEN SentScan(str, i + 1, IF st = 2 THEN 3 ELSE st, n)
            ELSE IF IsTerminator(c) THEN SentScan(str, i + 1, 2, IF st = 3 THEN n + 1 ELSE n)
            ELSE SentScan(str, i + 1, 1, IF st = 3 THEN n + 1 ELSE n)

\* len(nltk.sent_tokenize(text)): a sentence ends at . ! ? followed by white space
sent_count(str) == SentScan(str, 1, 0, 0)

IsVowel(c) == LowerChar(c) \in {97, 101, 105, 111, 117, 121}

\* textstat.flesch_reading_ease in thousandths:
\* 206.835 - 1.015 * (words / sentences) - 84.6 * (syllables / words),
\* syllables counted as groups of vowels, both quotients 0 when there is no word
flesch_reading_ease(str) ==
    LET chunks == WordScan(str, 1, <<>>, <<>>)
        W == Cardinality({i \in 1..Len(chunks) : \E j \in 1..Len(chunks[i]) : IsWordChar(chunks[i][j])})
        S == IF sent_count(str) = 0 THEN 1 ELSE sent_count(str)
        Syl == Cardinality({i \in 1..Len(str) :
                   IsVowel(str[i]) /\ (i = 1 \/ ~IsVowel(str[i - 1]))})
    IN IF W = 0 THEN 206835
       ELSE 206835 - (1015 * W) \div S - (84600 * Syl) \div W

SeqToSet(q) == {q[i] : i \in 1..Len(q)}

\* a plausible slip: the guard `if word_count > 0` left out
UniqueWordRatioUnguarded(words) == Div(Cardinality(SeqToSet(words)), Len(words))

\* line 101: len(unique_words) / word_count if word_count > 0 else 0
UniqueWordRatio(words) ==
    IF Len(words) > 0 THEN Div(Cardinality(SeqToSet(words)), Len(words)) ELSE Zero

\* line 102: sum(1 for c in text if c.isupper()) / char_count if char_count > 0 else 0
UppercaseRatio(str) ==
    IF Len(str) > 0 THEN Div(CountIf(str, IsUpper), Len(str)) ELSE Zero

TextFeatureKeys ==
    {"word_count", "char_count", "sentence_count", "avg_word_length",
     "unique_word_ratio", "uppercase_ratio", "punctuation_count", "readability_score"}

_extract_text_features(str) ==
    IF str = <<>>
    THEN [word_count |-> 0, char_count |-> 0, sentence_count |-> 0,
          avg_word_length |-> Zero, unique_word_ratio |-> Zero, uppercase_ratio |-> Zero,
          punctuation_count |-> 0, readability_score |-> 0]
    ELSE LET words == word_tokenize(Lower(str))
             word_count == Len(words)
             char_count == Len(str)
         IN [word_count |-> word_count,
             char_count |-> char_count,
             sentence_count |-> sent_count(str),
             avg_word_length |-> IF word_count > 0 THEN Div(char_count, word_count) ELSE Zero,
             unique_word_ratio |-> UniqueWordRatio(words),
             uppercase_ratio |-> UppercaseRatio(str),
             punctuation_count |-> CountIf(str, IsPunctuation),
             readability_score |-> flesch_reading_ease(str)]

----------------------------------------------------------------------------
(* _extract_url_features, lines 109-161 *)

\* line 121
url_shorteners ==
    <<<<98, 105, 116, 46, 108, 121>>, <<116, 105, 110, 121, 117, 114, 108>>, <<103, 111, 111, 46, 103, 108>>, <<111, 119, 46, 108, 121>>, <<105, 115, 46, 103, 100>>,
      <<98, 117, 102, 102, 46, 108, 121>>, <<97, 100, 102, 46, 108, 121>>, <<115, 104, 111, 114, 116, 46, 108, 105, 110, 107>>, <<116, 105, 110, 121, 46, 99, 99>>>>

\* line 45
suspicious_tlds ==
    <<<<46, 120, 121, 122>>, <<46, 116, 111, 112>>, <<46, 119, 111, 114, 107>>, <<46, 100, 97, 116, 101>>, <<46, 109, 101, 110>>, <<46, 108, 111, 97, 110>>,
      <<46, 100, 111, 119, 110, 108, 111, 97, 100>>, <<46, 114, 101, 118, 105, 101, 119>>, <<46, 115, 116, 114, 101, 97, 109>>, <<46, 103, 100, 110>>, <<46, 114, 97, 99, 105, 110, 103>>,
      <<46, 119, 105, 110>>, <<46, 98, 105, 100>>, <<46, 116, 114, 97, 100, 101>>, <<46, 119, 101, 98, 99, 97, 109>>, <<46, 115, 99, 105, 101, 110, 99, 101>>>>

RECURSIVE DigitRunEnd(_, _)
\* the index just after the digits that start at i
DigitRunEnd(str, i) ==
    IF i <= Len(str) /\ IsDigit(str[i]) THEN DigitRunEnd(str, i + 1) ELSE i

\* \d+\. at i: the index after the dot, or 0 when there is no match
DigitsDot(str, i) ==
    LET e == DigitRunEnd(str, i)
    IN IF i # 0 /\ e > i /\ e <= Len(str) /\ str[e] = 46 THEN e + 1 ELSE 0

\* \d+\.\d+\.\d+\.\d+ at i
DottedQuadAt(str, i) ==
    LET a == DigitsDot(str, i)
        b == DigitsDot(str, a)
        c == DigitsDot(str, b)
    IN c # 0 /\ DigitRunEnd(str, c) > c

\* re.match(r'https?://\d+\.\d+\.\d+\.\d+', url)
MatchesIpUrl(url) ==
    \/ StartsWith(url, <<104, 116, 116, 112, 58, 47, 47>>) /\ DottedQuadAt(url, 8)
    \/ StartsWith(url, <<104, 116, 116, 112, 115, 58, 47, 47>>) /\ DottedQuadAt(url, 9)

MinOf(S) == CHOOSE j \in S : \A k \in S : j <= k

MaxOf(S) == CHOOSE j \in S : \A k \in S : j >= k

\* the least element of S, or otherwise when S is empty
FirstIn(S, otherwise) == IF S = {} THEN otherwise ELSE MinOf(S)

\* the host of a URL: after the scheme's "//", up to the path, query, fragment or port
HostFrom(url, start) ==
    SubSeq(url, start, FirstIn({j \in start..Len(url) : url[j] \in {47, 63, 35, 58}},
                               Len(url) + 1) - 1)

UrlHost(url) ==
    HostFrom(url, FirstIn({j + 3 : j \in {i \in 1..(Len(url) - 2) : MatchAt(url, i, <<58, 47, 47>>)}}, 1))

RECURSIVE SplitDot(_, _, _, _)
SplitDot(str, i, cur, out) ==
    IF i > Len(str) THEN Append(out, cur)
    ELSE IF str[i] = 46 THEN SplitDot(str, i + 1, <<>>, Append(out, cur))
    ELSE SplitDot(str, i + 1, Append(cur, str[i]), out)

\* str.split('.')
Split(str) == SplitDot(str, 1, <<>>, <<>>)

RECURSIVE JoinDot(_)
JoinDot(labels) ==
    IF Len(labels) = 0 THEN <<>>
    ELSE IF Len(labels) = 1 THEN labels[1]
    ELSE labels[1] \o <<46>> \o JoinDot(Tail(labels))

\* the public suffixes (ICANN section) the modelled URLs can end in
PublicSuffixes ==
    {<<99, 111, 109>>, <<111, 114, 103>>, <<110, 101, 116>>, <<108, 121>>, <<103, 108>>, <<99, 99>>, <<108, 105, 110, 107>>, <<120, 121, 122>>, <<116, 111, 112>>,
     <<117, 107>>, <<99, 111, 46, 117, 107>>}

\* the last k labels, joined
LastLabels(labels, k) == JoinDot(SubSeq(labels, Len(labels) - k + 1, Len(labels)))

SuffixAmong(labels, ks) == IF ks = {} THEN <<>> ELSE LastLabels(labels, MaxOf(ks))

LongestSuffix(labels) ==
    SuffixAmong(labels, {k \in 1..Len(labels) : LastLabels(labels, k) \in PublicSuffixes})

SuffixOfHost(host) ==
    IF DottedQuadAt(host, 1) /\ Len(Split(host)) = 4 THEN <<>> ELSE LongestSuffix(Split(host))

\* tldextract.extract(url).suffix: the longest public suffix the host ends in,
\* without a leading dot; '' for an IP address or an unknown suffix
TldSuffix(url) == SuffixOfHost(Lower(UrlHost(url)))

\* any(x in str for x in list)
AnyIn(list, str) == \E i \in 1..Len(list) : Contains(str, list[i])

\* lines 138-140: extracted.suffix is not empty and holds one of suspicious_tlds
SuspiciousSuffix(suffix) == suffix # <<>> /\ AnyIn(suspicious_tlds, suffix)

\* url_entropy > 4.5
HighEntropy(e) == 2 * e > 9 * EntropyScale

One(b) == IF b THEN 1 ELSE 0

\* a plausible slip: a URL adds to suspicious_url_count once, however many checks it fails
CountUrlOnce(f, is_ip, is_shortened, tld_suspicious, is_https, url_entropy) ==
    [f EXCEPT !.ip_url_count = @ + One(is_ip),
              !.shortened_url_count = @ + One(is_shortened),
              !.suspicious_tld_count = @ + One(tld_suspicious),
              !.suspicious_url_count =
                  @ + One(is_ip \/ is_shortened \/ tld_suspicious \/ HighEntropy(url_entropy)),
              !.has_https = Append(@, is_https),
              !.url_entropy = Append(@, url_entropy)]

\* the counting of the loop body, lines 128-151: every check that holds adds
\* one to its own count and one to suspicious_url_count
CountUrl(f, is_ip, is_shortened, tld_suspicious, is_https, url_entropy) ==
    [f EXCEPT !.ip_url_count = @ + One(is_ip),
              !.shortened_url_count = @ + One(is_shortened),
              !.suspicious_tld_count = @ + One(tld_suspicious),
              !.suspicious_url_count =
                  @ + One(is_ip) + One(is_shortened) + One(tld_suspicious)
                    + One(HighEntropy(url_entropy)),
              !.has_https = Append(@, is_https),
              !.url_entropy = Append(@, url_entropy)]

\* the body of `for url in urls`, lines 126-151
UrlStep(f, url) ==
    CountUrl(f, MatchesIpUrl(url), AnyIn(url_shorteners, url),
             SuspiciousSuffix(TldSuffix(url)), StartsWith(url, <<104, 116, 116, 112, 115>>),
             _calculate_entropy(url))

RECURSIVE UrlLoop(_, _)
UrlLoop(f, list) ==
    IF list = <<>> THEN f ELSE UrlLoop(UrlStep(f, Head(list)), Tail(list))

UrlFeatureKeys ==
    {"url_count", "suspicious_url_count", "ip_url_count", "shortened_url_count",
     "suspicious_tld_count", "avg_url_entropy", "https_ratio"}

\* np.mean(q) if q else 0
MeanOrZero(q) == IF q # <<>> THEN Div(SumSeq(q), Len(q)) ELSE Zero

\* sum(q) / len(q) if q else 0, q a list of booleans
ShareOrZero(q) ==
    IF q # <<>> THEN Div(Cardinality({i \in 1..Len(q) : q[i]}), Len(q)) ELSE Zero

\* lines 153-161: the aggregates are added, the temporary lists deleted
UrlAggregate(f) ==
    [k \in UrlFeatureKeys |->
        IF k = "avg_url_entropy" THEN MeanOrZero(f.url_entropy)
        ELSE IF k = "https_ratio" THEN ShareOrZero(f.has_https)
        ELSE f[k]]

_extract_url_features(list) ==
    UrlAggregate(UrlLoop([url_count |-> Len(list), suspicious_url_count |-> 0,
                          ip_url_count |-> 0, shortened_url_count |-> 0,
                          suspicious_tld_count |-> 0,
                          url_entropy |-> <<>>, has_https |-> <<>>], list))

----------------------------------------------------------------------------
(* _extract_metadata_features, lines 163-197 *)

\* the value dict.get returns for a missing key: no string (no code point is negative)
None == <<-1>>

\* the truth value of an optional string: None and '' are false
Truthy(v) == v # None /\ v # <<>>

EmptyDict == <<>>

MetadataFeatureKeys ==
    {"has_reply_to", "reply_to_mismatch", "has_spf_fail", "has_dkim_fail", "has_dmarc_fail",
     "has_html", "has_forms", "has_scripts", "has_iframes"}

_extract_metadata_features(email) ==
    LET headers == Get(email, "headers", EmptyDict)
        reply_to == Get(headers, "Reply-To", None)
        auth_results == Lower(Get(headers, "Authentication-Results", <<>>))
    IN [has_reply_to |-> Truthy(reply_to),
        reply_to_mismatch |-> Truthy(reply_to) /\ reply_to # Get(headers, "From", None),
        has_spf_fail |-> Contains(auth_results, <<115, 112, 102, 61, 102, 97, 105, 108>>),
        has_dkim_fail |-> Contains(auth_results, <<100, 107, 105, 109, 61, 102, 97, 105, 108>>),
        has_dmarc_fail |-> FALSE,
        has_html |-> Get(email, "has_html", FALSE),
        has_forms |-> Get(email, "has_forms", FALSE),
        has_scripts |-> Get(email, "has_scripts", FALSE),
        has_iframes |-> Get(email, "has_iframes", FALSE)]

----------------------------------------------------------------------------
(* _extract_attachment_features, lines 199-232 *)

\* line 201
suspicious_extensions ==
    {<<46, 101, 120, 101>>, <<46, 115, 99, 114>>, <<46, 98, 97, 116>>, <<46, 99, 109, 100>>, <<46, 118, 98, 115>>, <<46, 112, 115, 49>>,
     <<46, 106, 115>>, <<46, 106, 97, 114>>, <<46, 100, 111, 99, 109>>, <<46, 120, 108, 115, 109>>, <<46, 112, 112, 116, 109>>}

\* line 222
executable_extensions == {<<46, 101, 120, 101>>, <<46, 115, 99, 114>>, <<46, 98, 97, 116>>, <<46, 99, 109, 100>>, <<46, 118, 98, 115>>, <<46, 112, 115, 49>>}

\* line 229
encrypted_markers == <<<<46, 101, 110, 99>>, <<46, 101, 110, 99, 114, 121, 112, 116, 101, 100>>, <<46, 112, 103, 112>>, <<46, 103, 112, 103>>>>

\* '.' + name.split('.')[-1].lower() if '.' in name else ''
Extension(name) ==
    IF Contains(name, <<46>>)
    THEN LET parts == Split(name) IN <<46>> \o Lower(parts[Len(parts)])
    ELSE <<>>

Max(a, b) == IF a >= b THEN a ELSE b

AttachmentStep(f, attachment) ==
    LET name == Get(attachment, "name", <<>>)
        size == Get(attachment, "size", 0)
        ext == Extension(name)
    IN [f EXCEPT
           !.suspicious_attachment_count = @ + (IF ext \in suspicious_extensions THEN 1 ELSE 0),
           !.executable_attachment_count =
               @ + (IF ext \in suspicious_extensions /\ ext \in executable_extensions
                    THEN 1 ELSE 0),
           !.max_attachment_size = Max(@, size),
           !.has_encrypted_attachment = @ \/ AnyIn(encrypted_markers, Lower(name))]

RECURSIVE AttachmentLoop(_, _)
AttachmentLoop(f, list) ==
    IF list = <<>> THEN f ELSE AttachmentLoop(AttachmentStep(f, Head(list)), Tail(list))

AttachmentFeatureKeys ==
    {"attachment_count", "suspicious_attachment_count", "executable_attachment_count",
     "max_attachment_size", "has_encrypted_attachment"}

_extract_attachment_features(attachments) ==
    AttachmentLoop([attachment_count |-> Len(attachments),
                    suspicious_attachment_count |-> 0,
                    executable_attachment_count |-> 0,
                    max_attachment_size |-> 0,
                    has_encrypted_attachment |-> FALSE], attachments)

----------------------------------------------------------------------------
(* _extract_behavioral_features, lines 234-262 *)

\* line 27
urgency_words ==
    <<<<117, 114, 103, 101, 110, 116>>, <<105, 109, 109, 101, 100, 105, 97, 116, 101, 108, 121>>, <<97, 108, 101, 114, 116>>, <<99, 114, 105, 116, 105, 99, 97, 108>>, <<105, 109, 112, 111, 114, 116, 97, 110, 116>>,
      <<115, 117, 115, 112, 101, 110, 100, 101, 100>>, <<108, 105, 109, 105, 116, 101, 100>>, <<101, 120, 112, 105, 114, 101>>, <<118, 101, 114, 105, 102, 121>>, <<99, 111, 110, 102, 105, 114, 109>>,
      <<97, 99, 99, 111, 117, 110, 116>>, <<115, 101, 99, 117, 114, 105, 116, 121>>, <<117, 112, 100, 97, 116, 101>>, <<114, 101, 115, 116, 111, 114, 101>>, <<97, 99, 116, 105, 111, 110, 32, 114, 101, 113, 117, 105, 114, 101, 100>>>>

\* line 33
financial_words ==
    <<<<98, 97, 110, 107>>, <<112, 97, 121, 112, 97, 108>>, <<99, 114, 101, 100, 105, 116, 32, 99, 97, 114, 100>>, <<118, 105, 115, 97>>, <<109, 97, 115, 116, 101, 114, 99, 97, 114, 100>>,
      <<119, 101, 115, 116, 101, 114, 110, 32, 117, 110, 105, 111, 110>>, <<109, 111, 110, 101, 121, 32, 103, 114, 97, 109>>, <<116, 114, 97, 110, 115, 102, 101, 114>>, <<119, 105, 114, 101>>,
      <<114, 101, 102, 117, 110, 100>>, <<105, 110, 118, 111, 105, 99, 101>>, <<112, 97, 121, 109, 101, 110, 116>>, <<116, 114, 97, 110, 115, 97, 99, 116, 105, 111, 110>>>>

\* line 39
personal_info_words ==
    <<<<112, 97, 115, 115, 119, 111, 114, 100>>, <<115, 115, 110>>, <<115, 111, 99, 105, 97, 108, 32, 115, 101, 99, 117, 114, 105, 116, 121>>, <<100, 97, 116, 101, 32, 111, 102, 32, 98, 105, 114, 116, 104>>,
      <<109, 111, 116, 104, 101, 114, 39, 115, 32, 109, 97, 105, 100, 101, 110, 32, 110, 97, 109, 101>>, <<99, 114, 101, 100, 105, 116, 32, 115, 99, 111, 114, 101>>, <<112, 105, 110>>,
      <<117, 115, 101, 114, 110, 97, 109, 101>>, <<108, 111, 103, 105, 110>>, <<115, 105, 103, 110, 32, 105, 110>>, <<118, 101, 114, 105, 102, 121, 32, 121, 111, 117, 114, 32, 105, 100, 101, 110, 116, 105, 116, 121>>>>

\* for word in lexicon: count += text_lower.count(word)
LexiconCount(lexicon, text_lower) ==
    SumSeq([i \in 1..Len(lexicon) |-> Count(text_lower, lexicon[i])])

BehavioralFeatureKeys ==
    {"urgency_words_count", "financial_words_count", "personal_info_words_count",
     "has_urgency", "has_financial", "has_personal_info_request"}

_extract_behavioral_features(str) ==
    LET text_lower == Lower(str)
        urgency == LexiconCount(urgency_words, text_lower)
        financial == LexiconCount(financial_words, text_lower)
        personal == LexiconCount(personal_info_words, text_lower)
    IN [urgency_words_count |-> urgency,
        financial_words_count |-> financial,
        personal_info_words_count |-> personal,
        has_urgency |-> urgency > 0,
        has_financial |-> financial > 0,
        has_personal_info_request |-> personal > 0]

----------------------------------------------------------------------------
(* The modelled inputs: URLs, bodies and ParsedEmail records *)

UrlIp == <<104, 116, 116, 112, 58, 47, 47, 49, 57, 50, 46, 49, 54, 56, 46, 49, 46, 53, 47, 108, 111, 103, 105, 110>>
UrlShort == <<104, 116, 116, 112, 115, 58, 47, 47, 98, 105, 116, 46, 108, 121, 47, 50, 120, 75>>
UrlIpShort == <<104, 116, 116, 112, 58, 47, 47, 49, 48, 46, 48, 46, 48, 46, 49, 47, 98, 105, 116, 46, 108, 121>>
UrlXyz == <<104, 116, 116, 112, 58, 47, 47, 102, 114, 101, 101, 45, 112, 114, 105, 122, 101, 46, 120, 121, 122, 47, 119, 105, 110>>
UrlPlain == <<104, 116, 116, 112, 115, 58, 47, 47, 101, 120, 97, 109, 112, 108, 101, 46, 99, 111, 109, 47>>
UrlRandom == <<104, 116, 116, 112, 115, 58, 47, 47, 99, 100, 110, 46, 101, 120, 97, 109, 112, 108, 101, 46, 111, 114, 103, 47, 90, 113, 56, 88, 119, 51, 76, 107, 57, 86, 98, 50, 78, 102, 55, 71, 104, 53, 74, 100, 49, 77, 115, 52, 80, 99, 54, 82, 116, 48, 89, 97>>
UrlShortRandom == <<104, 116, 116, 112, 58, 47, 47, 116, 105, 110, 121, 117, 114, 108, 46, 99, 111, 109, 47, 90, 113, 56, 88, 119, 51, 76, 107, 57, 86, 98, 50, 78, 102, 55, 71, 104, 53, 74, 100, 49, 77, 115, 52, 80, 99, 54, 82, 116, 48, 89, 97, 101>>

ModelUrls == {UrlIp, UrlShort, UrlIpShort, UrlXyz, UrlPlain, UrlRandom, UrlShortRandom}

BodyEmpty == <<>>
BodyBlank == <<32, 32, 32>>
BodyStopWords == <<116, 111, 32, 116, 104, 101>>
BodyUrgent == <<85, 82, 71, 69, 78, 84, 58, 32, 118, 101, 114, 105, 102, 121, 32, 121, 111, 117, 114, 32, 97, 99, 99, 111, 117, 110, 116, 32, 110, 111, 119, 33>>
BodyBank == <<67, 111, 110, 102, 105, 114, 109, 32, 98, 97, 110, 107, 32, 112, 97, 115, 115, 119, 111, 114, 100, 46, 32, 86, 101, 114, 105, 102, 121, 32, 97, 99, 99, 111, 117, 110, 116>>
BodyShort == <<118, 101, 114, 105, 102, 121, 32, 97, 99, 99, 111, 117, 110, 116>>

ModelBodies == {BodyEmpty, BodyBlank, BodyStopWords, BodyUrgent, BodyBank, BodyShort}

HeadersMismatch ==
    [x \in {"Reply-To", "From", "Authentication-Results"} |->
        IF x = "Reply-To" THEN <<104, 101, 108, 112, 64, 101, 118, 105, 108, 46, 120, 121, 122>>
        ELSE IF x = "From" THEN <<115, 117, 112, 112, 111, 114, 116, 64, 98, 97, 110, 107, 46, 99, 111, 109>>
        ELSE <<109, 120, 59, 32, 83, 80, 70, 61, 70, 97, 105, 108, 59, 32, 100, 107, 105, 109, 61, 112, 97, 115, 115>>]

AttachmentsExe ==
    <<[name |-> <<105, 110, 118, 111, 105, 99, 101, 46, 80, 68, 70, 46, 69, 88, 69>>, size |-> 10], [name |-> <<110, 111, 116, 101, 115, 46, 116, 120, 116, 46, 103, 112, 103>>]>>

\* the other keys of the record: none, present and empty, or filled
ModelRest ==
    {EmptyDict,
     [urls |-> <<>>, headers |-> EmptyDict, attachments |-> <<>>],
     [urls |-> <<UrlIp, UrlShortRandom>>, headers |-> HeadersMismatch,
      attachments |-> AttachmentsExe,
      has_html |-> TRUE, has_forms |-> TRUE, has_scripts |-> FALSE, has_iframes |-> FALSE]}

ModelEmails ==
    ModelRest \cup {Update(rest, [body |-> b]) : rest \in ModelRest, b \in ModelBodies}

----------------------------------------------------------------------------
(* self.tfidf_vectorizer, lines 20-24, and _get_tfidf_features, lines 264-271 *)

\* line 21: TfidfVectorizer(max_features=1000, ...)
max_features == 1000

\* line 22, stop_words='english': the words of that list the modelled bodies use
StopWords == {<<116, 104, 101>>, <<121, 111, 117, 114>>, <<110, 111, 119>>, <<116, 111>>, <<97, 110, 100>>, <<105, 115>>}

RECURSIVE TokenScan(_, _, _, _)
TokenScan(str, i, cur, out) ==
    LET flushed == IF Len(cur) >= 2 THEN Append(out, cur) ELSE out
    IN IF i > Len(str) THEN flushed
       ELSE IF IsWordChar(str[i]) THEN TokenScan(str, i + 1, Append(cur, str[i]), out)
       ELSE TokenScan(str, i + 1, <<>>, flushed)

NotStopWord(token) == token \notin StopWords

\* lowercase, the default token pattern (runs of two or more word characters),
\* stop words removed
Tokens(str) == SelectSeq(TokenScan(Lower(str), 1, <<>>, <<>>), NotStopWord)

RECURSIVE JoinSpace(_)
JoinSpace(tokens) ==
    IF Len(tokens) = 1 THEN tokens[1]
    ELSE tokens[1] \o <<32>> \o JoinSpace(Tail(tokens))

\* the n-grams of a token list, in order
Ngrams(tokens, n) ==
    [i \in 1..(IF Len(tokens) >= n THEN Len(tokens) - n + 1 ELSE 0) |->
        JoinSpace(SubSeq(tokens, i, i + n - 1))]

AllNgrams(tokens) == Ngrams(tokens, 1) \o Ngrams(tokens, 2) \o Ngrams(tokens, 3)

\* line 23, ngram_range=(1, 3): the document as its list of terms
Analyze(str) == AllNgrams(Tokens(str))

\* Analyze, evaluated once per modelled body
TermsOf == [b \in ModelBodies |-> Analyze(b)]

Terms(str) == IF str \in ModelBodies THEN TermsOf[str] ELSE Analyze(str)

TermCount(terms, term) == Cardinality({i \in 1..Len(terms) : terms[i] = term})

\* a < b as Python compares str
LexLess(a, b) ==
    \E i \in 1..(Len(a) + 1) :
        /\ \A j \in 1..(i - 1) : j <= Len(b) /\ a[j] = b[j]
        /\ \/ i = Len(a) + 1 /\ Len(b) > Len(a)
           \/ i <= Len(a) /\ i <= Len(b) /\ a[i] < b[i]

RECURSIVE Sorted(_)
\* sorted(S)
Sorted(S) ==
    IF S = {} THEN <<>>
    ELSE LET m == CHOOSE a \in S : \A b \in S \ {a} : LexLess(a, b)
         IN <<m>> \o Sorted(S \ {m})

\* max_features: only the most frequent terms are kept
LimitFeatures(S, terms) ==
    IF Cardinality(S) <= max_features THEN S
    ELSE CHOOSE K \in SUBSET S :
             /\ Cardinality(K) = max_features
             /\ \A a \in K, b \in S \ K : TermCount(terms, a) >= TermCount(terms, b)

Unfitted == [fitted |-> FALSE, vocabulary_ |-> <<>>, idf_ |-> <<>>]

\* the vectorizer once it has learnt the vocabulary `kept` from one document:
\* a term's idf over one document is ln(2 / 2) + 1 = 1
Fitted(kept) ==
    [raised |-> "",
     vectorizer |-> [fitted |-> TRUE, vocabulary_ |-> kept,
                     idf_ |-> [i \in 1..Len(kept) |-> 1]]]

\* an empty vocabulary raises ValueError
FitTerms(terms) ==
    IF terms = <<>> THEN [raised |-> "ValueError", vectorizer |-> Unfitted]
    ELSE Fitted(Sorted(LimitFeatures(SeqToSet(terms), terms)))

\* TfidfVectorizer.fit([text]): the vocabulary and the idf weights are learnt
\* anew from the one document
FitDocument(str) == FitTerms(Terms(str))

\* FitDocument, evaluated once per modelled body
FitDocumentOf == [b \in ModelBodies |-> FitDocument(b)]

KeepOnRaise(fit, vec) ==
    IF fit.raised # "" THEN [raised |-> fit.raised, vectorizer |-> vec] ELSE fit

\* a plausible slip: fitting adds the document's terms to the vocabulary learnt so far
FitAccumulating(vec, str) ==
    KeepOnRaise(
        IF SeqToSet(Terms(str)) \cup SeqToSet(vec.vocabulary_) = {}
        THEN [raised |-> "ValueError", vectorizer |-> Unfitted]
        ELSE Fitted(Sorted(SeqToSet(Terms(str)) \cup SeqToSet(vec.vocabulary_))), vec)

\* fit on the vectorizer vec: what it had learnt before is replaced; a fit
\* that raises leaves vec as it was
Fit(vec, str) ==
    KeepOnRaise(IF str \in ModelBodies THEN FitDocumentOf[str] ELSE FitDocument(str), vec)

RECURSIVE GcdSeq(_)
GcdSeq(q) == IF q = <<>> THEN 0 ELSE Gcd(Head(q), GcdSeq(Tail(q)))

\* the term counts of a document over the vocabulary, times idf
Weights(vec, terms) ==
    [i \in 1..Len(vec.vocabulary_) |-> TermCount(terms, vec.vocabulary_[i]) * vec.idf_[i]]

\* the entry c / sqrt(norm2) is the pair <<c, norm2>>
OverNorm(reduced, norm2) == [i \in 1..Len(reduced) |-> <<reduced[i], norm2>>]

\* a row divided by its Euclidean norm, the entries' common factor g taken
\* out first; an all-zero row stays zero
Normalised(weights, g) ==
    IF g = 0 THEN [i \in 1..Len(weights) |-> Zero]
    ELSE OverNorm([i \in 1..Len(weights) |-> weights[i] \div g],
                  SumSeq([i \in 1..Len(weights) |-> (weights[i] \div g) * (weights[i] \div g)]))

L2Row(weights) == Normalised(weights, GcdSeq(weights))

\* TfidfVectorizer.transform([text])[0] with the fitted vectorizer vec
Transform(vec, str) == L2Row(Weights(vec, Terms(str)))

TransformIfFitted(fit, str) ==
    IF fit.raised # "" THEN [raised |-> fit.raised, vectorizer |-> fit.vectorizer, value |-> <<>>]
    ELSE [raised |-> "", vectorizer |-> fit.vectorizer,
          value |-> Transform(fit.vectorizer, str)]

\* self.tfidf_vectorizer.fit_transform([text]), line 270
fit_transform(vec, str) == TransformIfFitted(Fit(vec, str), str)

\* a plausible slip: the empty-text shortcut returns an empty list
TfidfEmptyForNoText(vec, str) ==
    IF str = <<>> THEN [raised |-> "", vectorizer |-> vec, value |-> <<>>]
    ELSE fit_transform(vec, str)

\* returns the list (or raises) and the vectorizer as the call leaves it
_get_tfidf_features(vec, str) ==
    IF str = <<>>
    THEN [raised |-> "", vectorizer |-> vec, value |-> [i \in 1..max_features |-> Zero]]
    ELSE fit_transform(vec, str)

----------------------------------------------------------------------------
(* extract_all_features, lines 51-73 *)

FeatureKeys ==
    TextFeatureKeys \cup UrlFeatureKeys \cup MetadataFeatureKeys
    \cup AttachmentFeatureKeys \cup BehavioralFeatureKeys \cup {"tfidf_vector"}

\* lines 53-68: everything but the TF-IDF vector
AnalyzerFeatures(email) ==
    Update(Update(Update(Update(Update(EmptyDict,
        _extract_text_features(Get(email, "body", <<>>))),
        _extract_url_features(Get(email, "urls", <<>>))),
        _extract_metadata_features(email)),
        _extract_attachment_features(Get(email, "attachments", <<>>))),
        _extract_behavioral_features(Get(email, "body", <<>>)))

\* AnalyzerFeatures, evaluated once per modelled email
AnalyzerFeaturesOf == [email \in ModelEmails |-> AnalyzerFeatures(email)]

\* line 71: features['tfidf_vector'] = ..., unless the call raised
WithTfidf(f, tfidf) ==
    IF tfidf.raised # ""
    THEN [raised |-> tfidf.raised, vectorizer |-> tfidf.vectorizer, features |-> EmptyDict]
    ELSE [raised |-> "", vectorizer |-> tfidf.vectorizer,
          features |-> Update(f, [tfidf_vector |-> tfidf.value])]

\* returns the features (or raises) and the vectorizer as the call leaves it
extract_all_features(vec, email) ==
    WithTfidf(IF email \in ModelEmails THEN AnalyzerFeaturesOf[email]
              ELSE AnalyzerFeatures(email),
              _get_tfidf_features(vec, Get(email, "body", <<>>)))

----------------------------------------------------------------------------
(* prepare_ml_input, lines 288-318 *)

\* line 294
numerical_features ==
    <<"word_count", "char_count", "sentence_count", "avg_word_length",
      "unique_word_ratio", "uppercase_ratio", "punctuation_count",
      "url_count", "suspicious_url_count", "ip_url_count",
      "shortened_url_count", "suspicious_tld_count", "avg_url_entropy",
      "https_ratio", "urgency_words_count", "financial_words_count",
      "personal_info_words_count", "attachment_count",
      "suspicious_attachment_count", "executable_attachment_count">>

\* line 308
boolean_features ==
    <<"has_reply_to", "reply_to_mismatch", "has_spf_fail",
      "has_dkim_fail", "has_html", "has_forms", "has_scripts",
      "has_iframes", "has_urgency", "has_financial",
      "has_personal_info_request", "has_encrypted_attachment">>

\* the features whose value is a quotient, not a count
QuotientKeys ==
    {"avg_word_length", "unique_word_ratio", "uppercase_ratio", "avg_url_entropy", "https_ratio"}

\* float(features.get(feature, 0))
FloatOf(f, k) ==
    IF k \notin DOMAIN f THEN <<0, 1>>
    ELSE IF k \in QuotientKeys THEN f[k]
    ELSE <<f[k], 1>>

\* 1 if features.get(feature, False) else 0, as np.array stores it beside floats
FlagOf(f, k) == IF Get(f, k, FALSE) THEN <<1, 1>> ELSE <<0, 1>>

\* a plausible slip: a feature the mapping lacks is left out of the vector
PrepareSkippingMissing(f) ==
    LET present(list) == SelectSeq(list, LAMBDA k : k \in DOMAIN f)
        nums == present(numerical_features)
        flags == present(boolean_features)
    IN << [i \in 1..Len(nums) |-> FloatOf(f, nums[i])]
          \o [i \in 1..Len(flags) |-> FlagOf(f, flags[i])] >>

\* np.array(feature_vector).reshape(1, -1): one row
prepare_ml_input(f) ==
    << [i \in 1..Len(numerical_features) |-> FloatOf(f, numerical_features[i])]
       \o [i \in 1..Len(boolean_features) |-> FlagOf(f, boolean_features[i])] >>

----------------------------------------------------------------------------
(* Bounds and inputs of the entropy specification *)

MaxLen == 4

\* 'a', 'b' and two characters outside range(256): U+03BB and U+03BC
EntropyAlphabet == {97, 98, 955, 956}

RECURSIVE StringsUpTo(_, _)
StringsUpTo(alphabet, n) ==
    IF n = 0 THEN {<<>>}
    ELSE LET shorter == StringsUpTo(alphabet, n - 1)
         IN shorter \cup {Append(x, c) : x \in {y \in shorter : Len(y) = n - 1}, c \in alphabet}

\* no entropy has been returned yet; a returned value e is held as <<e>>
NotComputed == <<>>

IdleExtractor ==
    /\ tfidf_vectorizer = <<>>
    /\ email_data = <<>>
    /\ result = <<>>
    /\ probe = <<>>

IdleWorkers ==
    /\ pc = <<>>
    /\ submission = <<>>
    /\ partial = <<>>
    /\ outcome = <<>>

IdleEntropy == s = <<>> /\ t = <<>> /\ entropy_s = NotComputed /\ entropy_t = NotComputed

IdleText == text = <<>> /\ text_features = <<>>

IdleUrl == urls = <<>> /\ url_features = <<>>

IdleMl == features = <<>> /\ ml_input = <<>>

InitEntropy ==
    /\ s \in StringsUpTo(EntropyAlphabet, MaxLen)
    /\ t = s
    /\ entropy_s = NotComputed
    /\ entropy_t = NotComputed
    /\ IdleExtractor /\ IdleWorkers /\ IdleText /\ IdleUrl /\ IdleMl

\* a caller evaluates self._calculate_entropy on both strings
CalculateEntropy ==
    /\ entropy_s' = <<_calculate_entropy(s)>>
    /\ entropy_t' = <<_calculate_entropy(t)>>
    /\ UNCHANGED <<s, t>>
    /\ UNCHANGED <<extractorVars, workerVars, textVars, urlVars, mlVars>>

\* the caller rearranges the characters of t: two neighbours change places
Transpose ==
    \E i \in 1..(Len(t) - 1) :
        /\ t[i] # t[i + 1]
        /\ t' = [t EXCEPT ![i] = t[i + 1], ![i + 1] = t[i]]
        /\ entropy_s' = NotComputed
        /\ entropy_t' = NotComputed
        /\ UNCHANGED s
        /\ UNCHANGED <<extractorVars, workerVars, textVars, urlVars, mlVars>>

NextEntropy == CalculateEntropy \/ Transpose

SpecEntropy == InitEntropy /\ [][NextEntropy]_vars

IsPermutation(a, b) ==
    /\ Len(a) = Len(b)
    /\ \A c \in {a[i] : i \in 1..Len(a)} \cup {b[i] : i \in 1..Len(b)} :
           CountChar(a, c) = CountChar(b, c)

\* C8: the entropy of the empty string is 0, the entropy of one character
\* repeated is 0, and a string and any rearrangement of its characters have
\* the same entropy.
C8_EntropyZeroAndPermutation ==
    entropy_s # NotComputed =>
        /\ IsPermutation(s, t)
        /\ entropy_s = entropy_t
        /\ (s = <<>> => entropy_s = <<0>>)
        /\ ((\A i \in 1..Len(s) : s[i] = s[1]) => entropy_s = <<0>>)

C8_Witness ==
    /\ entropy_s # NotComputed
    /\ Len(s) = 3
    /\ s # t
    /\ entropy_s[1] > 0

\* all characters of str occur equally often
EquallyFrequent(str) ==
    \A c, d \in SeqToSet(str) : CountChar(str, c) = CountChar(str, d)

\* e is log2(n) in EntropyScale units, up to the n units that rounding n
\* terms down can lose
IsLog2Of(e, n) == NegLog2(n, 1) - n < e /\ e <= NegLog2(n, 1)

\* C11: every distinct character of the string, whatever its code point, adds
\* its -p*log2(p) term: a string with two or more distinct characters has
\* entropy above 0, and n equally frequent distinct characters give log2(n).
C11_EntropyOverAllCharacters ==
    entropy_s # NotComputed =>
        /\ (Cardinality(SeqToSet(s)) >= 2 => entropy_s[1] > 0)
        /\ (s # <<>> /\ EquallyFrequent(s) => IsLog2Of(entropy_s[1], Cardinality(SeqToSet(s))))

----------------------------------------------------------------------------
(* The text specification: _extract_text_features on every short body *)

MaxTextLen == 4

\* 'a', 'b', 'B', ' ' and '.'
TextAlphabet == {97, 98, 66, 32, 46}

InitText ==
    /\ text \in StringsUpTo(TextAlphabet, MaxTextLen)
    /\ text_features = <<>>
    /\ IdleExtractor /\ IdleWorkers /\ IdleEntropy /\ IdleUrl /\ IdleMl

ExtractTextFeatures ==
    /\ text_features = <<>>
    /\ text_features' = _extract_text_features(text)
    /\ UNCHANGED text
    /\ UNCHANGED <<extractorVars, workerVars, entropyVars, urlVars, mlVars>>

NextText == ExtractTextFeatures

SpecText == InitText /\ [][NextText]_vars

\* a quotient that is a number (no division by zero) within [0, 1]
InUnitInterval(r) == r[2] > 0 /\ 0 <= r[1] /\ r[1] <= r[2]

\* C9: unique_word_ratio and uppercase_ratio lie within [0, 1] for every body,
\* and both are 0 when the body is empty or has no token; no body makes
\* either quotient divide by zero.
C9_RatiosInUnitInterval ==
    text_features # <<>> =>
        /\ InUnitInterval(text_features.unique_word_ratio)
        /\ InUnitInterval(text_features.uppercase_ratio)
        /\ (text = <<>> \/ text_features.word_count = 0 =>
               /\ text_features.unique_word_ratio = Zero
               /\ text_features.uppercase_ratio = Zero)

\* a body of blanks only: not empty, and no token
C9_Witness ==
    /\ text_features # <<>>
    /\ Len(text) = 2
    /\ text_features.word_count = 0
    /\ text_features.unique_word_ratio = Zero

----------------------------------------------------------------------------
(* The URL specification: _extract_url_features on every short URL list *)

MaxUrls == 2

InitUrl ==
    /\ urls \in StringsUpTo(ModelUrls, MaxUrls)
    /\ url_features = <<>>
    /\ IdleExtractor /\ IdleWorkers /\ IdleEntropy /\ IdleText /\ IdleMl

ExtractUrlFeatures ==
    /\ url_features = <<>>
    /\ url_features' = _extract_url_features(urls)
    /\ UNCHANGED urls
    /\ UNCHANGED <<extractorVars, workerVars, entropyVars, textVars, mlVars>>

NextUrl == ExtractUrlFeatures

SpecUrl == InitUrl /\ [][NextUrl]_vars

HighEntropyUrlCount(list) ==
    Cardinality({i \in 1..Len(list) : HighEntropy(_calculate_entropy(list[i]))})

\* C10: suspicious_url_count is the sum of ip_url_count, shortened_url_count,
\* suspicious_tld_count and the number of URLs whose entropy exceeds 4.5 (a URL
\* counts once per bucket it falls in); every bucket count is at most
\* url_count, and url_count is the length of the list.
C10_SuspiciousCountIsAdditive ==
    url_features # <<>> =>
        /\ url_features.url_count = Len(urls)
        /\ url_features.suspicious_url_count =
               url_features.ip_url_count + url_features.shortened_url_count
               + url_features.suspicious_tld_count + HighEntropyUrlCount(urls)
        /\ url_features.ip_url_count <= url_features.url_count
        /\ url_features.shortened_url_count <= url_features.url_count
        /\ url_features.suspicious_tld_count <= url_features.url_count
        /\ HighEntropyUrlCount(urls) <= url_features.url_count

\* one URL that is IP-hosted and names a shortener, and one that names a
\* shortener and has high entropy: four counts from two URLs
C10_Witness ==
    /\ url_features # <<>>
    /\ urls = <<UrlIpShort, UrlShortRandom>>
    /\ url_features.suspicious_url_count = 4
    /\ url_features.ip_url_count = 1
    /\ url_features.shortened_url_count = 2

----------------------------------------------------------------------------
(* The extractor specification: one FeatureExtractor, called again and again *)

MaxCalls == 2

NotCalled == [called |-> FALSE, raised |-> "", features |-> EmptyDict]

NoProbe ==
    [called |-> FALSE, email |-> EmptyDict, raised |-> "", features |-> EmptyDict,
     vectorizer |-> Unfitted, later |-> 0, refitted |-> FALSE]

Init ==
    /\ tfidf_vectorizer = Unfitted
    /\ email_data = EmptyDict
    /\ result = NotCalled
    /\ probe = NoProbe
    /\ IdleWorkers /\ IdleEntropy /\ IdleText /\ IdleUrl /\ IdleMl

\* the state after a call of extract_all_features(email) that ended as r;
\* `keep` only decides whether the call is the one later calls are compared
\* with. probe.later counts the calls after it, and probe.refitted records
\* that one of them left the vectorizer different from how the kept call
\* left it
Called(email, keep, r) ==
    /\ tfidf_vectorizer' = r.vectorizer
    /\ email_data' = email
    /\ result' = [called |-> TRUE, raised |-> r.raised, features |-> r.features]
    /\ probe' = IF keep
                THEN [called |-> TRUE, email |-> email, raised |-> r.raised,
                      features |-> r.features, vectorizer |-> r.vectorizer,
                      later |-> 0, refitted |-> FALSE]
                ELSE IF probe.called
                THEN [probe EXCEPT !.later = @ + 1,
                                   !.refitted = @ \/ r.vectorizer # probe.vectorizer]
                ELSE probe

\* a caller runs extractor.extract_all_features(email) to its end
ExtractAllFeatures(email, keep) ==
    /\ probe.later < MaxCalls
    /\ keep => ~probe.called
    /\ Called(email, keep, extract_all_features(tfidf_vectorizer, email))
    /\ UNCHANGED <<workerVars, entropyVars, textVars, urlVars, mlVars>>

Next == \E email \in ModelEmails, keep \in BOOLEAN : ExtractAllFeatures(email, keep)

Spec == Init /\ [][Next]_vars

Returned(r) == r.called /\ r.raised = ""

\* C1: every call of extract_all_features, degenerate input included, returns
\* without raising, and what it returns has exactly the declared feature keys.
C1_AlwaysCompleteFeatureSet ==
    result.called => result.raised = "" /\ DOMAIN result.features = FeatureKeys

\* the empty or default ParsedEmail: no body text, no URL, no attachment, no
\* header, and no HTML flag
IsDefaultEmail(email) ==
    /\ Get(email, "body", <<>>) = <<>>
    /\ Get(email, "urls", <<>>) = <<>>
    /\ Get(email, "attachments", <<>>) = <<>>
    /\ Get(email, "headers", EmptyDict) = EmptyDict
    /\ DOMAIN email \cap {"has_html", "has_forms", "has_scripts", "has_iframes"} = {}

CountKeys ==
    {"word_count", "char_count", "sentence_count", "punctuation_count", "readability_score",
     "url_count", "suspicious_url_count", "ip_url_count", "shortened_url_count",
     "suspicious_tld_count", "attachment_count", "suspicious_attachment_count",
     "executable_attachment_count", "max_attachment_size", "urgency_words_count",
     "financial_words_count", "personal_info_words_count"}

FlagKeys ==
    {"has_reply_to", "reply_to_mismatch", "has_spf_fail", "has_dkim_fail", "has_dmarc_fail",
     "has_html", "has_forms", "has_scripts", "has_iframes", "has_encrypted_attachment",
     "has_urgency", "has_financial", "has_personal_info_request"}

\* C2: for the empty or default ParsedEmail the call returns every declared
\* key at its default: counts and ratios 0, flags false, and a text vector of
\* zeros.
C2_DefaultEmailAllZero ==
    result.called /\ IsDefaultEmail(email_data) =>
        /\ result.raised = ""
        /\ DOMAIN result.features = CountKeys \cup QuotientKeys \cup FlagKeys \cup {"tfidf_vector"}
        /\ \A k \in CountKeys : result.features[k] = 0
        /\ \A k \in QuotientKeys : result.features[k] = Zero
        /\ \A k \in FlagKeys : result.features[k] = FALSE
        /\ Len(result.features.tfidf_vector) > 0
        /\ \A i \in 1..Len(result.features.tfidf_vector) : result.features.tfidf_vector[i] = Zero

\* the default email, extracted by an extractor that earlier emails have fitted
C2_Witness ==
    /\ result.called
    /\ email_data = EmptyDict
    /\ tfidf_vectorizer.fitted
    /\ result.features.word_count = 0

\* C3: no call changes the fitted vocabulary and idf state of the extractor:
\* after any sequence of calls it is what it was before the first call.
C3_FittedStateUnchanged == tfidf_vectorizer = Unfitted

\* C4: the tfidf_vector has the same length for every body, empty or not.
C4_VectorLengthFixed ==
    Returned(probe) /\ Returned(result) =>
        Len(result.features.tfidf_vector) = Len(probe.features.tfidf_vector)

\* C5: the same email extracted a second time on the same extractor gives the
\* same outcome, the same FeatureSet and the same ML input vector, whatever
\* emails were extracted in between.
C5_Idempotent ==
    probe.called /\ result.called /\ email_data = probe.email =>
        /\ result.raised = probe.raised
        /\ result.features = probe.features
        /\ prepare_ml_input(result.features) = prepare_ml_input(probe.features)

\* a non-empty body extracted again after another email refitted the vectorizer
C5_Witness ==
    /\ probe.called
    /\ probe.later = 2
    /\ probe.refitted
    /\ email_data = probe.email
    /\ Returned(result)
    /\ Get(email_data, "body", <<>>) = BodyShort
    /\ Len(result.features.tfidf_vector) = 3

----------------------------------------------------------------------------
(* The vector specification: prepare_ml_input on feature mappings, keys missing or not *)

MaxMissing == 1

RECURSIVE SubsetsUpTo(_, _)
SubsetsUpTo(S, n) ==
    IF n = 0 THEN {{}}
    ELSE LET smaller == SubsetsUpTo(S, n - 1)
         IN smaller \cup {D \cup {k} : D \in smaller, k \in S}

Without(f, D) == [k \in DOMAIN f \ D |-> f[k]]

FilledRest ==
    [urls |-> <<UrlIp, UrlShortRandom>>, headers |-> HeadersMismatch,
     attachments |-> AttachmentsExe,
     has_html |-> TRUE, has_forms |-> TRUE, has_scripts |-> FALSE, has_iframes |-> FALSE]

\* FeatureSets as extract_all_features returns them
ModelFeatureSets ==
    {extract_all_features(Unfitted, email).features :
        email \in {EmptyDict, [body |-> BodyBank], Update(FilledRest, [body |-> BodyUrgent])}}

\* a mapping with up to MaxMissing keys missing, or with no key at all
ModelMappings ==
    {Without(f, D) : f \in ModelFeatureSets, D \in SubsetsUpTo(FeatureKeys, MaxMissing)}
    \cup {EmptyDict}

InitMl ==
    /\ features \in ModelMappings
    /\ ml_input = <<>>
    /\ IdleExtractor /\ IdleWorkers /\ IdleEntropy /\ IdleText /\ IdleUrl

PrepareMlInput ==
    /\ ml_input = <<>>
    /\ ml_input' = prepare_ml_input(features)
    /\ UNCHANGED features
    /\ UNCHANGED <<extractorVars, workerVars, entropyVars, textVars, urlVars>>

NextMl == PrepareMlInput

SpecMl == InitMl /\ [][NextMl]_vars

\* the feature order of the vector: 20 numeric features, then 12 flags
C7_Order ==
    <<"word_count", "char_count", "sentence_count", "avg_word_length", "unique_word_ratio",
      "uppercase_ratio", "punctuation_count", "url_count", "suspicious_url_count",
      "ip_url_count", "shortened_url_count", "suspicious_tld_count", "avg_url_entropy",
      "https_ratio", "urgency_words_count", "financial_words_count",
      "personal_info_words_count", "attachment_count", "suspicious_attachment_count",
      "executable_attachment_count",
      "has_reply_to", "reply_to_mismatch", "has_spf_fail", "has_dkim_fail", "has_html",
      "has_forms", "has_scripts", "has_iframes", "has_urgency", "has_financial",
      "has_personal_info_request", "has_encrypted_attachment">>

\* C7: for every feature mapping, keys missing or not, prepare_ml_input
\* returns one row of 32 numbers: the 20 numeric features in their fixed
\* order (0 for a missing one), then the 12 flags in their fixed order, each
\* exactly 0 or 1 (0 for a missing one).
C7_FixedOrderRow ==
    ml_input # <<>> =>
        /\ Len(ml_input) = 1
        /\ Len(ml_input[1]) = 32
        /\ \A i \in 1..20 :
               LET k == C7_Order[i]
               IN ml_input[1][i] =
                      IF k \notin DOMAIN features THEN <<0, 1>>
                      ELSE IF k \in {"avg_word_length", "unique_word_ratio",
                                      "uppercase_ratio", "avg_url_entropy", "https_ratio"}
                      THEN features[k]
                      ELSE <<features[k], 1>>
        /\ \A i \in 21..32 :
               LET k == C7_Order[i]
               IN /\ ml_input[1][i] \in {<<0, 1>>, <<1, 1>>}
                  /\ ml_input[1][i] = <<1, 1>> <=> (k \in DOMAIN features /\ features[k])

\* a mapping that lacks url_count and has has_urgency set
C7_Witness ==
    /\ ml_input # <<>>
    /\ "url_count" \notin DOMAIN features
    /\ "has_urgency" \in DOMAIN features
    /\ features.has_urgency
    /\ ml_input[1][8] = <<0, 1>>
    /\ ml_input[1][29] = <<1, 1>>
    /\ ml_input[1][1] = <<7, 1>>

----------------------------------------------------------------------------
(* The worker specification: two submissions on one shared FeatureExtractor *)

Workers == {"w1", "w2"}

\* the emails of the two submissions: every modelled body
WorkerEmails == {[body |-> b] : b \in ModelBodies}

InitWorkers ==
    /\ tfidf_vectorizer = Unfitted
    /\ pc = [w \in Workers |-> "idle"]
    /\ submission = [w \in Workers |-> EmptyDict]
    /\ partial = [w \in Workers |-> [features |-> EmptyDict, fitted |-> Unfitted]]
    /\ outcome = [w \in Workers |-> NotCalled]
    /\ email_data = <<>> /\ result = <<>> /\ probe = <<>>
    /\ IdleEntropy /\ IdleText /\ IdleUrl /\ IdleMl

\* lines 53-68: worker w enters extract_all_features(email); everything up to
\* the TF-IDF call reads the email only
Begin(w, email) ==
    /\ pc[w] = "idle"
    /\ submission' = [submission EXCEPT ![w] = email]
    /\ partial' = [partial EXCEPT ![w].features = AnalyzerFeaturesOf[email]]
    /\ pc' = [pc EXCEPT ![w] = "tfidf"]
    /\ UNCHANGED <<tfidf_vectorizer, outcome, email_data, result, probe>>
    /\ UNCHANGED <<entropyVars, textVars, urlVars, mlVars>>

Finished(w, raised, f) ==
    /\ outcome' = [outcome EXCEPT ![w] = [called |-> TRUE, raised |-> raised, features |-> f]]
    /\ pc' = [pc EXCEPT ![w] = "done"]

FitStep(w, body, fit) ==
    IF body = <<>>
    THEN /\ Finished(w, "", Update(partial[w].features,
                                   [tfidf_vector |-> [i \in 1..max_features |-> Zero]]))
         /\ UNCHANGED <<tfidf_vectorizer, partial>>
    ELSE IF fit.raised # ""
    THEN /\ Finished(w, fit.raised, EmptyDict)
         /\ UNCHANGED <<tfidf_vectorizer, partial>>
    ELSE /\ tfidf_vectorizer' = fit.vectorizer
         /\ partial' = [partial EXCEPT ![w].fitted = fit.vectorizer]
         /\ pc' = [pc EXCEPT ![w] = "transform"]
         /\ UNCHANGED outcome

\* lines 266-270, first half: the empty-text shortcut, or fit_transform
\* learns the document's vocabulary and idf into the shared vectorizer
TfidfFit(w) ==
    /\ pc[w] = "tfidf"
    /\ FitStep(w, Get(submission[w], "body", <<>>),
               Fit(tfidf_vectorizer, Get(submission[w], "body", <<>>)))
    /\ UNCHANGED <<submission, email_data, result, probe>>
    /\ UNCHANGED <<entropyVars, textVars, urlVars, mlVars>>

\* line 270, second half, and lines 271, 71-73: fit_transform weights the
\* worker's own term counts with the idf the shared vectorizer holds now;
\* idf learnt meanwhile from a document with another number of terms does
\* not fit the counts, and the call raises ValueError
TfidfTransform(w) ==
    /\ pc[w] = "transform"
    /\ IF Len(tfidf_vectorizer.idf_) # Len(partial[w].fitted.vocabulary_)
       THEN Finished(w, "ValueError", EmptyDict)
       ELSE Finished(w, "", Update(partial[w].features,
                [tfidf_vector |->
                    Transform([partial[w].fitted EXCEPT !.idf_ = tfidf_vectorizer.idf_],
                              Get(submission[w], "body", <<>>))]))
    /\ UNCHANGED <<tfidf_vectorizer, submission, partial, email_data, result, probe>>
    /\ UNCHANGED <<entropyVars, textVars, urlVars, mlVars>>

NextWorkers ==
    \E w \in Workers :
        \/ \E email \in WorkerEmails : Begin(w, email)
        \/ TfidfFit(w)
        \/ TfidfTransform(w)

SpecWorkers == InitWorkers /\ [][NextWorkers]_vars

AsResult(r) == [called |-> TRUE, raised |-> r.raised, features |-> r.features]

\* what extract_all_features gives the email when it is processed alone
Alone(email) == AsResult(extract_all_features(Unfitted, email))

AloneOf == [email \in WorkerEmails |-> Alone(email)]

\* C6: under every interleaving of two submissions on one extractor, each
\* submission's finished call gives what the email gets when processed alone.
C6_ConcurrentEqualsAlone ==
    \A w \in Workers : pc[w] = "done" => outcome[w] = AloneOf[submission[w]]

----------------------------------------------------------------------------
(* The scenario specification: one extract_all_features call on an email *)
(* whose body is made of lexicon phrases and whose URLs are IP-hosted or not *)

MaxWords == 2

\* IP-hosted over http, https, HTTP and ftp, and one named host
ScenarioUrls ==
    {UrlIp, <<104, 116, 116, 112, 115, 58, 47, 47, 49, 48, 46, 48, 46, 48, 46, 49>>, <<72, 84, 84, 80, 58, 47, 47, 49, 57, 50, 46, 49, 54, 56, 46, 49, 46, 53, 47, 108, 111, 103, 105, 110>>, <<102, 116, 112, 58, 47, 47, 49, 57, 50, 46, 49, 54, 56, 46, 49, 46, 53, 47, 112, 117, 98>>,
     UrlPlain}

\* one, two and no urgency terms; two financial terms; one personal-information term
ScenarioPhrases ==
    {<<85, 82, 71, 69, 78, 84>>, <<86, 101, 114, 105, 102, 121, 32, 121, 111, 117, 114, 32, 65, 99, 99, 111, 117, 110, 116>>, <<104, 101, 108, 108, 111>>, <<98, 97, 110, 107, 32, 116, 114, 97, 110, 115, 102, 101, 114>>, <<80, 97, 115, 115, 119, 111, 114, 100>>}

\* up to MaxWords phrases, a blank between two
ScenarioBodies ==
    {IF q = <<>> THEN <<>> ELSE JoinSpace(q) : q \in StringsUpTo(ScenarioPhrases, MaxWords)}

ScenarioEmails ==
    {[body |-> b, urls |-> u] : b \in ScenarioBodies, u \in StringsUpTo(ScenarioUrls, MaxUrls)}

\* the first call on a new extractor
NextScenario ==
    \E email \in ScenarioEmails : ~result.called /\ ExtractAllFeatures(email, FALSE)

SpecScenario == Init /\ [][NextScenario]_vars

\* term occurs in str at position p, letter case ignored
OccursAt(str, p, term) ==
    /\ p + Len(term) - 1 <= Len(str)
    /\ \A j \in 1..Len(term) : LowerChar(str[p + j - 1]) = term[j]

\* the occurrences of the terms of a lexicon in str, letter case ignored
Occurrences(lexicon, str) ==
    SumSeq([i \in 1..Len(lexicon) |->
               Cardinality({p \in 1..Len(str) : OccursAt(str, p, lexicon[i])})])

\* a character of a URL scheme: a letter, a digit, '+', '-' or '.'
IsSchemeChar(c) == c \in 65..90 \/ c \in 97..122 \/ c \in 48..57 \/ c \in {43, 45, 46}

\* the URL has the form scheme://dotted-quad
IsSchemeDottedQuad(url) ==
    \E p \in 2..Len(url) :
        /\ \A j \in 1..(p - 1) : IsSchemeChar(url[j])
        /\ MatchAt(url, p, <<58, 47, 47>>)
        /\ DottedQuadAt(url, p + 3)

DottedQuadUrls(list) == Cardinality({i \in 1..Len(list) : IsSchemeDottedQuad(list[i])})

\* C12: for a body with n occurrences of urgency terms (letter case ignored)
\* and a URL list with k URLs of the form scheme://dotted-quad, the FeatureSet
\* has urgency_words_count = n, has_urgency = (n > 0), ip_url_count = k and
\* suspicious_url_count >= k; each lexicon's flag is true exactly when its
\* count is above 0.
C12_ScenarioCounts ==
    Returned(result) =>
        /\ result.features.urgency_words_count =
               Occurrences(urgency_words, Get(email_data, "body", <<>>))
        /\ result.features.has_urgency =
               (Occurrences(urgency_words, Get(email_data, "body", <<>>)) > 0)
        /\ result.features.ip_url_count = DottedQuadUrls(Get(email_data, "urls", <<>>))
        /\ result.features.suspicious_url_count >= DottedQuadUrls(Get(email_data, "urls", <<>>))
        /\ result.features.has_urgency = (result.features.urgency_words_count > 0)
        /\ result.features.has_financial = (result.features.financial_words_count > 0)
        /\ result.features.has_personal_info_request =
               (result.features.personal_info_words_count > 0)

----------------------------------------------------------------------------
(* The header specification: extract_all_features on emails whose header *)
(* names are spelt as the code spells them, or in lower case *)

\* one header under the name n
Header(n, v) == [x \in {n} |-> v]

\* no Reply-To, or one under either spelling, equal to From's value or not;
\* no From, or one under either spelling; no Authentication-Results, or one
\* under either spelling
HeaderEmails ==
    {[headers |-> Update(Update(r, f), a)] :
        r \in {EmptyDict} \cup {Header(n, v) : n \in {"Reply-To", "reply-to"},
                                               v \in {<<104, 101, 108, 112, 64, 101, 118, 105, 108, 46, 120, 121, 122>>, <<115, 117, 112, 112, 111, 114, 116, 64, 98, 97, 110, 107, 46, 99, 111, 109>>}},
        f \in {EmptyDict} \cup {Header(n, <<115, 117, 112, 112, 111, 114, 116, 64, 98, 97, 110, 107, 46, 99, 111, 109>>) : n \in {"From", "from"}},
        a \in {EmptyDict} \cup {Header(n, <<109, 120, 59, 32, 83, 80, 70, 61, 70, 97, 105, 108, 59, 32, 100, 107, 105, 109, 61, 102, 97, 105, 108>>) :
                                   n \in {"Authentication-Results", "authentication-results"}}}

NextHeaders ==
    \E email \in HeaderEmails, keep \in BOOLEAN : ExtractAllFeatures(email, keep)

SpecHeaders == Init /\ [][NextHeaders]_vars

\* a header name in lower case
LowerName(n) ==
    CASE n \in {"Reply-To", "reply-to"} -> "reply-to"
      [] n \in {"From", "from"} -> "from"
      [] n \in {"Authentication-Results", "authentication-results"} -> "authentication-results"
      [] OTHER -> n

\* the header of that name, however the name is spelt; None when there is none
Lookup(headers, name) ==
    IF \E k \in DOMAIN headers : LowerName(k) = name
    THEN headers[CHOOSE k \in DOMAIN headers : LowerName(k) = name]
    ELSE None

DifferOnlyInNameCase(a, b) ==
    \A name \in {"reply-to", "from", "authentication-results"} :
        Lookup(Get(a, "headers", EmptyDict), name) = Lookup(Get(b, "headers", EmptyDict), name)

\* C13: two emails that differ only in the letter case of their header names
\* get the same has_reply_to, reply_to_mismatch, has_spf_fail and
\* has_dkim_fail; reply_to_mismatch is true exactly when there is a Reply-To
\* and it differs from From, and so implies has_reply_to.
C13_HeaderNameCaseIgnored ==
    /\ Returned(probe) /\ Returned(result) /\ DifferOnlyInNameCase(probe.email, email_data) =>
           \A k \in {"has_reply_to", "reply_to_mismatch", "has_spf_fail", "has_dkim_fail"} :
               result.features[k] = probe.features[k]
    /\ Returned(result) =>
           /\ result.features.reply_to_mismatch =
                  (/\ Truthy(Lookup(Get(email_data, "headers", EmptyDict), "reply-to"))
                   /\ Lookup(Get(email_data, "headers", EmptyDict), "reply-to")
                          # Lookup(Get(email_data, "headers", EmptyDict), "from"))
           /\ result.features.reply_to_mismatch => result.features.has_reply_to

====
